---- MODULE Spec2Model ----
(***************************************************************************)
(* The grid world of environment.py (GridWorld) with the agents of         *)
(* agents.py.  Positions are pairs <<x, y>>.  Energy (Agent.total_rewards) *)
(* is a float that only ever changes by -1 and +0.5; it is kept here in    *)
(* half units, so 100.0 is 200 and every value is an exact integer.        *)
(***************************************************************************)
EXTENDS Integers, Sequences, FiniteSets, TLC

\* ---------------------------------------------------------------- bounds
Width == 3
Height == 2
PerceptionRange == 1
MaxTick == 3
MaxStartEnergy == 2

\* ------------------------------------------------------ foundational types
CellType == {"EMPTY", "WALL", "GOAL", "RESOURCE", "HAZARD"}

MoveActions == <<"MOVE_NORTH", "MOVE_SOUTH", "MOVE_EAST", "MOVE_WEST">>

Action == {"MOVE_NORTH", "MOVE_SOUTH", "MOVE_EAST", "MOVE_WEST", "PICKUP", "DROP", "WAIT"}

IsMove(a) == a \in {"MOVE_NORTH", "MOVE_SOUTH", "MOVE_EAST", "MOVE_WEST"}

\* Direction[action.name.replace("MOVE_", "")].value
Direction(a) ==
    CASE a = "MOVE_NORTH" -> <<0, -1>>
      [] a = "MOVE_SOUTH" -> <<0, 1>>
      [] a = "MOVE_EAST" -> <<1, 0>>
      [] a = "MOVE_WEST" -> <<-1, 0>>

\* Position.__add__
PosAdd(p, d) == <<p[1] + d[1], p[2] + d[2]>>

\* ------------------------------------------------------------------ state
VARIABLES
    width,                  \* GridWorld.width
    height,                 \* GridWorld.height
    grid,                   \* GridWorld.grid: the keys that were written, with their type
    time_step,              \* GridWorld.time_step
    agents,                 \* GridWorld.agents: id -> class of the registered agent
    agent_positions,        \* GridWorld.agent_positions: id -> Position
    total_rewards,          \* Agent.total_rewards of each registered agent, in half units
    action_history,         \* Agent.action_history of each registered agent
    initial_resource_count, \* GridWorld.initial_resource_count
    tasks_completed,        \* GridWorld.tasks_completed
    task_completion_times,  \* GridWorld.task_completion_times
    known_walls,            \* per agent: known_walls
    known_resources,        \* per agent: known_resources
    known_goals,            \* per agent: known_goals
    known_hazards,          \* per agent: known_hazards (ModelBasedReflexAgent only)
    visited_positions,      \* per agent: visited_positions
    current_plan,           \* per agent: GoalBasedAgent.current_plan
    cursor,                 \* position of step()'s loop: 0 when no step runs, else the id visited next
    tick_start,             \* agent_positions when the running step() began
    last,                   \* the call that produced this state and what it returned or did
    planner                 \* a call of GoalBasedAgent._find_path_astar: its arguments and its outcome

envVars == <<grid, time_step, agents, agent_positions, total_rewards, action_history,
             initial_resource_count, tasks_completed, task_completion_times>>

memVars == <<known_walls, known_resources, known_goals, known_hazards,
             visited_positions, current_plan>>

vars == <<grid, time_step, agents, agent_positions, total_rewards, action_history,
          initial_resource_count, tasks_completed, task_completion_times,
          known_walls, known_resources, known_goals, known_hazards,
          visited_positions, current_plan, cursor, tick_start, last,
          width, height, planner>>

\* what no operation of a constructed environment changes, and the planner call
dimVars == <<width, height, planner>>

\* ------------------------------------------------------------ environment
\* is_valid_position with both upper limits off by one
IsValidPositionInclusive(pos) == 0 <= pos[1] /\ pos[1] <= width /\ 0 <= pos[2] /\ pos[2] <= height

\* GridWorld.is_valid_position
IsValidPosition(pos) == 0 <= pos[1] /\ pos[1] < width /\ 0 <= pos[2] /\ pos[2] < height

\* self.grid.get(pos): None for a key never written (get does not call the default factory)
GridGet(g, pos) == IF pos \in DOMAIN g THEN g[pos] ELSE "None"

\* self.grid.get(pos, CellType.EMPTY)
GridGetOrEmpty(g, pos) == IF pos \in DOMAIN g THEN g[pos] ELSE "EMPTY"

\* self.grid[pos] = t
GridSet(g, pos, t) == [q \in DOMAIN g \cup {pos} |-> IF q = pos THEN t ELSE g[q]]

\* the mutator loop without the is_valid_position test
RECURSIVE PlaceCellsUnchecked(_, _, _)
PlaceCellsUnchecked(g, positions, t) ==
    IF positions = <<>> THEN g
    ELSE PlaceCellsUnchecked(GridSet(g, Head(positions), t), Tail(positions), t)

\* the loop shared by add_walls, add_goals, add_resources and add_hazards
RECURSIVE PlaceCells(_, _, _)
PlaceCells(g, positions, t) ==
    IF positions = <<>> THEN g
    ELSE PlaceCells(IF IsValidPosition(Head(positions)) THEN GridSet(g, Head(positions), t) ELSE g,
                    Tail(positions), t)

add_walls(g, wall_positions) == PlaceCells(g, wall_positions, "WALL")

add_goals(g, goal_positions) == PlaceCells(g, goal_positions, "GOAL")

add_resources(g, resource_positions) == PlaceCells(g, resource_positions, "RESOURCE")

add_hazards(g, hazard_positions) == PlaceCells(g, hazard_positions, "HAZARD")

\* occupancy read from the positions the running step() started with
IsOccupiedAtTickStart(pos) ==
    IF cursor # 0 THEN \E i \in DOMAIN tick_start : tick_start[i] = pos
    ELSE \E i \in DOMAIN agent_positions : agent_positions[i] = pos

\* pos in self.agent_positions.values()
IsOccupied(pos) == \E i \in DOMAIN agent_positions : agent_positions[i] = pos

\* is_position_free without the is_occupied test
IsPositionFreeIgnoringAgents(pos) == IsValidPosition(pos) /\ GridGet(grid, pos) # "WALL"

\* is_position_free without the is_wall test
IsPositionFreeIgnoringWalls(pos) == IsValidPosition(pos) /\ ~IsOccupied(pos)

\* GridWorld.is_position_free
IsPositionFree(pos) ==
    /\ IsValidPosition(pos)
    /\ GridGet(grid, pos) # "WALL"
    /\ ~IsOccupied(pos)

\* count(PICKUP) and count(DROP) of a history
RECURSIVE CountOf(_, _)
CountOf(h, a) == IF h = <<>> THEN 0 ELSE (IF Head(h) = a THEN 1 ELSE 0) + CountOf(Tail(h), a)

\* the carrying test with >= in place of >
HasResourceNonStrict(h) == CountOf(h, "PICKUP") >= CountOf(h, "DROP")

\* action_history.count(PICKUP) > action_history.count(DROP)
HasResource(h) == CountOf(h, "PICKUP") > CountOf(h, "DROP")

\* the carried amount: Pickup entries minus Drop entries
Carried(h) == CountOf(h, "PICKUP") - CountOf(h, "DROP")

\* execute_action, MOVE branch: self.is_position_free(next_pos)
MoveApplies(agent_id, action) ==
    IsMove(action) /\ IsPositionFree(PosAdd(agent_positions[agent_id], Direction(action)))

\* a PICKUP branch that does not test the cell
PickupAnywhere(agent_id) == TRUE

\* execute_action, PICKUP branch: self.grid.get(current_pos) == CellType.RESOURCE
PickupApplies(agent_id) == GridGet(grid, agent_positions[agent_id]) = "RESOURCE"

\* a DROP branch that does not test the carrying condition
DropAlways(agent_id) == TRUE

\* a DROP branch that tests for a Pickup in the history, not for the balance
DropAfterAnyPickup(agent_id) == CountOf(action_history[agent_id], "PICKUP") > 0

\* execute_action, DROP branch: count(PICKUP) > count(DROP)
DropApplies(agent_id) == HasResource(action_history[agent_id])

\* whether the branch of execute_action taken for action changes anything but the energy
ActionApplies(agent_id, action) ==
    \/ MoveApplies(agent_id, action)
    \/ action = "PICKUP" /\ PickupApplies(agent_id)
    \/ action = "DROP" /\ DropApplies(agent_id)

\* a WAIT branch that restores the whole unit
EnergyAfterFreeWait(e, action) == IF action = "WAIT" THEN e ELSE e - 2

\* total_rewards -= 1, and += 0.5 in the WAIT branch (half units)
EnergyAfter(e, action) == IF action = "WAIT" THEN e - 2 + 1 ELSE e - 2

\* a Drop that writes Resource whatever the cell is
GridAfterDropAlwaysResource(g, current_pos) == GridSet(g, current_pos, "RESOURCE")

\* the grid after a Drop that applies: a Goal cell is kept, any other cell becomes Resource
GridAfterDrop(g, current_pos) ==
    IF GridGet(g, current_pos) = "GOAL" THEN g ELSE GridSet(g, current_pos, "RESOURCE")

\* the delivery counted by a Drop that applies on a Goal cell
IsDelivery(agent_id) == GridGet(grid, agent_positions[agent_id]) = "GOAL"

\* GridWorld.execute_action
execute_action(agent_id, action) ==
    LET current_pos == agent_positions[agent_id] IN
    /\ total_rewards' = [total_rewards EXCEPT ![agent_id] = EnergyAfter(@, action)]
    /\ agent_positions' =
          IF MoveApplies(agent_id, action)
          THEN [agent_positions EXCEPT ![agent_id] = PosAdd(current_pos, Direction(action))]
          ELSE agent_positions
    /\ action_history' =
          IF \/ action = "PICKUP" /\ PickupApplies(agent_id)
             \/ action = "DROP" /\ DropApplies(agent_id)
          THEN [action_history EXCEPT ![agent_id] = Append(@, action)]
          ELSE action_history
    /\ grid' =
          IF action = "PICKUP" /\ PickupApplies(agent_id) THEN GridSet(grid, current_pos, "EMPTY")
          ELSE IF action = "DROP" /\ DropApplies(agent_id) THEN GridAfterDrop(grid, current_pos)
          ELSE grid
    /\ tasks_completed' =
          IF action = "DROP" /\ DropApplies(agent_id) /\ IsDelivery(agent_id)
          THEN tasks_completed + 1 ELSE tasks_completed
    /\ task_completion_times' =
          IF action = "DROP" /\ DropApplies(agent_id) /\ IsDelivery(agent_id)
          THEN Append(task_completion_times, time_step) ELSE task_completion_times
    /\ UNCHANGED <<time_step, agents, initial_resource_count>>

\* sum(...) and max(...) over a list of integers
RECURSIVE SeqSum(_)
SeqSum(q) == IF q = <<>> THEN 0 ELSE Head(q) + SeqSum(Tail(q))

RECURSIVE SeqMax(_)
SeqMax(q) ==
    IF Len(q) = 1 THEN Head(q)
    ELSE IF Head(q) >= SeqMax(Tail(q)) THEN Head(q) ELSE SeqMax(Tail(q))

\* metrics that report the first entry of the delivery-tick list
MetricsFirstDelivery ==
    [total_resources_collected |-> tasks_completed,
     time_step |-> time_step,
     average_energy |-> IF agents # <<>> THEN <<SeqSum(total_rewards), 2 * Len(agents)>> ELSE <<0, 1>>,
     task_completion_time |->
        IF task_completion_times # <<>> THEN task_completion_times[1] ELSE 0]

\* GridWorld.get_performance_metrics; the mean energy is the fraction
\* <<sum of the energies in half units, 2 * number of agents>>
get_performance_metrics ==
    [total_resources_collected |-> tasks_completed,
     time_step |-> time_step,
     average_energy |-> IF agents # <<>> THEN <<SeqSum(total_rewards), 2 * Len(agents)>> ELSE <<0, 1>>,
     task_completion_time |->
        IF task_completion_times # <<>> THEN SeqMax(task_completion_times) ELSE 0]

\* what `last` records of a call of execute_action
Executed(op, agent_id, action) ==
    [op |-> op, id |-> agent_id, action |-> action,
     applied |-> ActionApplies(agent_id, action),
     pos |-> agent_positions[agent_id],
     cell |-> GridGetOrEmpty(grid, agent_positions[agent_id])]

NoCall(op) == [op |-> op, id |-> 0, action |-> "NONE", applied |-> FALSE,
               pos |-> <<0, 0>>, cell |-> "EMPTY"]

\* the planner variable while _find_path_astar has not been called
NoSearch == [called |-> FALSE]

\* GridWorld.add_agent, for an agent object of class k whose energy is e
add_agent(k, position, e) ==
    /\ IF IsPositionFree(position)
       THEN /\ agents' = Append(agents, k)
            /\ agent_positions' = Append(agent_positions, position)
            /\ total_rewards' = Append(total_rewards, e)
            /\ action_history' = Append(action_history, <<>>)
            /\ known_walls' = Append(known_walls, {})
            /\ known_resources' = Append(known_resources, {})
            /\ known_goals' = Append(known_goals, {})
            /\ known_hazards' = Append(known_hazards, {})
            /\ visited_positions' = Append(visited_positions, {})
            /\ current_plan' = Append(current_plan, <<>>)
       ELSE UNCHANGED <<agents, agent_positions, total_rewards, action_history, memVars>>
    /\ last' = [op |-> "add_agent", id |-> IF IsPositionFree(position) THEN Len(agents) + 1 ELSE 0,
                action |-> "NONE", applied |-> IsPositionFree(position), pos |-> position,
                cell |-> GridGetOrEmpty(grid, position)]
    /\ UNCHANGED <<grid, time_step, initial_resource_count, tasks_completed,
                   task_completion_times, cursor, tick_start, dimVars>>

\* the positions handed to add_agent: two cells (so at most two agents are ever
\* registered), the Wall cell and a position outside the grid
AgentPositions == {<<1, 0>>, <<1, 1>>, <<Width - 1, Height - 1>>, <<Width, 0>>}

\* the energy an agent object has when it is registered (half units): add_agent
\* takes the agent as it is, with what earlier calls left of its 100.0
StartEnergies == {1, 2 * MaxStartEnergy + 1}

\* the skip test with < in place of <=
IsFrozenStrict(e) == e < 0

\* step(): agent.total_rewards <= 0
IsFrozen(e) == e <= 0

\* the next id of step()'s loop over self.agents.items()
NextCursor == IF cursor = Len(agents) THEN 0 ELSE cursor + 1

\* terrain setup as in ProjectTester.run_single_experiment: walls, resources, goals
\* (and hazards); each list also names a position outside the grid.  The third layout
\* has a second goal in place of the hazard; the fourth has no goal inside the grid
\* and hazards on both inner neighbours of its only resource; the fifth walls in the
\* cell (1,1)
SetupInputs ==
    [walls : {<<<<Width - 1, Height - 1>>, <<Width, 1>>>>},
     resources : {<<<<0, 0>>, <<1, 0>>, <<-1, 0>>>>, <<<<0, 0>>, <<-1, 0>>>>},
     goals : {<<<<Width - 1, 0>>, <<0, Height>>>>},
     hazards : {<<<<0, Height - 1>>>>}]
    \cup {[walls |-> <<<<Width - 1, Height - 1>>, <<Width, 1>>>>,
            resources |-> <<<<0, 0>>, <<1, 0>>, <<-1, 0>>>>,
            goals |-> <<<<Width - 1, 0>>, <<0, Height - 1>>>>,
            hazards |-> <<>>],
           [walls |-> <<<<Width - 1, Height - 1>>, <<Width, 1>>>>,
            resources |-> <<<<0, 0>>, <<-1, 0>>>>,
            goals |-> <<<<0, Height>>>>,
            hazards |-> <<<<0, 1>>, <<1, 0>>>>],
           [walls |-> <<<<1, 0>>, <<0, 1>>, <<2, 1>>, <<1, 2>>, <<Width, 1>>>>,
            resources |-> <<<<0, 0>>, <<-1, 0>>>>,
            goals |-> <<<<Width - 1, 0>>>>,
            hazards |-> <<>>]}

SetupGrid(s) ==
    add_hazards(add_goals(add_resources(add_walls(<<>>, s.walls), s.resources), s.goals), s.hazards)

Init ==
    /\ width = Width
    /\ height = Height
    /\ planner = NoSearch
    /\ \E s \in SetupInputs :
          /\ grid = SetupGrid(s)
          /\ initial_resource_count = Len(s.resources)
    /\ time_step = 0
    /\ agents = <<>>
    /\ agent_positions = <<>>
    /\ total_rewards = <<>>
    /\ action_history = <<>>
    /\ tasks_completed = 0
    /\ task_completion_times = <<>>
    /\ known_walls = <<>>
    /\ known_resources = <<>>
    /\ known_goals = <<>>
    /\ known_hazards = <<>>
    /\ visited_positions = <<>>
    /\ current_plan = <<>>
    /\ cursor = 0
    /\ tick_start = <<>>
    /\ last = NoCall("init")

\* the harness registers an agent whose decision function is left open; as in
\* ProjectTester.run_single_experiment, agents are registered before the first step
AddAgent ==
    /\ cursor = 0
    /\ time_step = 0
    /\ \E position \in AgentPositions, e \in StartEnergies : add_agent("Agent", position, e)

\* step(): self.time_step += 1, then the loop starts at the first registered agent
StepBegin ==
    /\ cursor = 0
    /\ time_step < MaxTick
    /\ time_step' = time_step + 1
    /\ cursor' = IF agents = <<>> THEN 0 ELSE 1
    /\ tick_start' = agent_positions
    /\ last' = NoCall("step")
    /\ UNCHANGED <<grid, agents, agent_positions, total_rewards, action_history,
                   initial_resource_count, tasks_completed, task_completion_times, memVars,
                   dimVars>>

\* step(): if agent.total_rewards <= 0: continue
StepSkip ==
    /\ cursor # 0
    /\ IsFrozen(total_rewards[cursor])
    /\ cursor' = NextCursor
    /\ last' = [NoCall("skip") EXCEPT !.id = cursor]
    /\ UNCHANGED <<envVars, memVars, tick_start, dimVars>>

\* step(): one agent perceives, decides (any action) and the action is executed
StepAgent ==
    /\ cursor # 0
    /\ ~IsFrozen(total_rewards[cursor])
    /\ agents[cursor] = "Agent"
    /\ \E action \in Action :
          /\ execute_action(cursor, action)
          /\ last' = Executed("step_agent", cursor, action)
    /\ cursor' = NextCursor
    /\ UNCHANGED <<memVars, tick_start, dimVars>>

Next ==
    \/ AddAgent
    \/ StepBegin
    \/ StepSkip
    \/ StepAgent

Spec == Init /\ [][Next]_vars

\* ----------------------------------------------------------------- agents
Abs(n) == IF n < 0 THEN -n ELSE n

\* abs(p.x - q.x) + abs(p.y - q.y)
Manhattan(p, q) == Abs(p[1] - q[1]) + Abs(p[2] - q[2])

\* get_perception: the window in the order its cells are inserted into visible_cells
\* (y_offset outer, x_offset inner, both ascending)
WindowSeq(agent_pos) ==
    LET n == 2 * PerceptionRange + 1 IN
    [k \in 1..(n * n) |->
        <<agent_pos[1] + ((k - 1) % n) - PerceptionRange,
          agent_pos[2] + ((k - 1) \div n) - PerceptionRange>>]

\* a window entry read from the grid without the boundary test
VisibleCellNoSentinel(pos) == GridGetOrEmpty(grid, pos)

\* get_perception: the entry of one window position
VisibleCell(pos) == IF ~IsValidPosition(pos) THEN "WALL" ELSE GridGetOrEmpty(grid, pos)

\* GridWorld.get_perception
get_perception(agent_id) ==
    LET agent_pos == agent_positions[agent_id]
        window == {WindowSeq(agent_pos)[k] : k \in DOMAIN WindowSeq(agent_pos)}
    IN  [position |-> agent_pos,
         visible_cells |-> [pos \in window |-> VisibleCell(pos)],
         energy_level |-> total_rewards[agent_id],
         has_resource |-> HasResource(action_history[agent_id])]

\* visible_cells.get(pos)
VisGet(visible_cells, pos) == IF pos \in DOMAIN visible_cells THEN visible_cells[pos] ELSE "None"

\* a direction that resolves the horizontal difference first
get_direction_horizontal_first(from_pos, to_pos) ==
    IF from_pos[1] < to_pos[1] THEN "EAST"
    ELSE IF from_pos[1] > to_pos[1] THEN "WEST"
    ELSE IF from_pos[2] > to_pos[2] THEN "NORTH"
    ELSE IF from_pos[2] < to_pos[2] THEN "SOUTH"
    ELSE "None"

\* SimpleReflexAgent._get_direction_toward
get_direction_toward(from_pos, to_pos) ==
    IF from_pos[2] > to_pos[2] THEN "NORTH"
    ELSE IF from_pos[2] < to_pos[2] THEN "SOUTH"
    ELSE IF from_pos[1] < to_pos[1] THEN "EAST"
    ELSE IF from_pos[1] > to_pos[1] THEN "WEST"
    ELSE "None"

\* SimpleReflexAgent._direction_to_action
direction_to_action(direction) ==
    CASE direction = "NORTH" -> "MOVE_NORTH"
      [] direction = "SOUTH" -> "MOVE_SOUTH"
      [] direction = "EAST" -> "MOVE_EAST"
      [] direction = "WEST" -> "MOVE_WEST"

\* an exploration that rules out Wall destinations only
random_move_off_walls(visible_cells, current_pos) ==
    LET valid_moves ==
            {MoveActions[k] : k \in {k \in DOMAIN MoveActions :
                VisGet(visible_cells, PosAdd(current_pos, Direction(MoveActions[k]))) # "WALL"}}
    IN  IF valid_moves # {} THEN valid_moves ELSE {"WAIT"}

\* SimpleReflexAgent._random_valid_move: the actions random.choice may return
random_valid_move(visible_cells, current_pos) ==
    LET valid_moves ==
            {MoveActions[k] : k \in {k \in DOMAIN MoveActions :
                VisGet(visible_cells, PosAdd(current_pos, Direction(MoveActions[k])))
                    \notin {"WALL", "HAZARD"}}}
    IN  IF valid_moves # {} THEN valid_moves ELSE {"WAIT"}

\* [pos for pos, cell_type in visible_cells.items() if cell_type == t], in dict order
VisibleOfType(perception, t) ==
    SelectSeq(WindowSeq(perception.position), LAMBDA pos : perception.visible_cells[pos] = t)

\* SimpleReflexAgent.decide_action: the actions it may return
SimpleDecide(perception) ==
    LET my_pos == perception.position
        visible_cells == perception.visible_cells
        targets == VisibleOfType(perception, IF perception.has_resource THEN "GOAL" ELSE "RESOURCE")
    IN  IF perception.has_resource /\ VisGet(visible_cells, my_pos) = "GOAL" THEN {"DROP"}
        ELSE IF ~perception.has_resource /\ VisGet(visible_cells, my_pos) = "RESOURCE" THEN {"PICKUP"}
        ELSE IF targets # <<>> /\ get_direction_toward(my_pos, targets[1]) # "None"
        THEN {direction_to_action(get_direction_toward(my_pos, targets[1]))}
        ELSE random_valid_move(visible_cells, my_pos)

\* _update_world_model: one known-set after the merge of the window
Merged(known, perception, t) ==
    known \cup {pos \in DOMAIN perception.visible_cells : perception.visible_cells[pos] = t}

\* _update_world_model: known_resources after the merge and the removal of the
\* current position (history not empty, position known, not carrying, last entry Pickup)
UpdatedResources(known, perception, history) ==
    LET merged == Merged(known, perception, "RESOURCE") IN
    IF /\ history # <<>>
       /\ perception.position \in merged
       /\ ~perception.has_resource
       /\ history[Len(history)] = "PICKUP"
    THEN merged \ {perception.position}
    ELSE merged

\* the memory of agent_id as a record
Memory(agent_id) ==
    [known_walls |-> known_walls[agent_id],
     known_resources |-> known_resources[agent_id],
     known_goals |-> known_goals[agent_id],
     known_hazards |-> known_hazards[agent_id],
     visited_positions |-> visited_positions[agent_id],
     current_plan |-> current_plan[agent_id]]

\* ModelBasedReflexAgent._update_world_model
ModelUpdate(mem, perception, history) ==
    [mem EXCEPT
        !.visited_positions = @ \cup {perception.position},
        !.known_walls = Merged(@, perception, "WALL"),
        !.known_resources = UpdatedResources(@, perception, history),
        !.known_goals = Merged(@, perception, "GOAL"),
        !.known_hazards = Merged(@, perception, "HAZARD")]

\* GoalBasedAgent._update_world_model (no hazards)
GoalUpdate(mem, perception, history) ==
    [mem EXCEPT
        !.visited_positions = @ \cup {perception.position},
        !.known_walls = Merged(@, perception, "WALL"),
        !.known_resources = UpdatedResources(@, perception, history),
        !.known_goals = Merged(@, perception, "GOAL")]

\* a target at greatest distance in place of one at least distance
find_farthest_target(start_pos, targets) ==
    {t \in targets : \A u \in targets : Manhattan(t, start_pos) >= Manhattan(u, start_pos)}

\* _find_closest_target: min(targets, key=distance) returns the first minimum in the
\* set's iteration order, which the model leaves open: any target at minimum distance
find_closest_target(start_pos, targets) ==
    {t \in targets : \A u \in targets : Manhattan(t, start_pos) <= Manhattan(u, start_pos)}

\* the move of rules 4 and 5 of ModelBasedReflexAgent.decide_action toward a target
MovesToward(my_pos, closest) ==
    {direction_to_action(get_direction_toward(my_pos, t)) :
        t \in {u \in closest : get_direction_toward(my_pos, u) # "None"}}

\* ModelBasedReflexAgent.decide_action after the model update: the actions it may return
ModelDecide(mem, perception) ==
    LET my_pos == perception.position
        goal_moves == IF perception.has_resource /\ mem.known_goals # {}
                      THEN MovesToward(my_pos, find_closest_target(my_pos, mem.known_goals))
                      ELSE {}
        resource_moves == IF ~perception.has_resource /\ mem.known_resources # {}
                          THEN MovesToward(my_pos, find_closest_target(my_pos, mem.known_resources))
                          ELSE {}
    IN  IF perception.has_resource /\ my_pos \in mem.known_goals THEN {"DROP"}
        ELSE IF ~perception.has_resource /\ my_pos \in mem.known_resources THEN {"PICKUP"}
        ELSE IF goal_moves # {} THEN goal_moves
        ELSE IF resource_moves # {} THEN resource_moves
        ELSE random_valid_move(perception.visible_cells, my_pos)


\* _find_path_astar: iteration_limit
IterationLimit == 200

\* heapq.heappop: the entry (priority, tie_breaker, position) least in tuple order;
\* tie_breaker is unique, so positions are never compared
HeapMin(frontier) ==
    CHOOSE e \in frontier :
        \A f \in frontier : e[1] < f[1] \/ (e[1] = f[1] /\ e[2] <= f[2])

\* dict[key] = value
DictSet(d, key, value) == [k \in DOMAIN d \cup {key} |-> IF k = key THEN value ELSE d[k]]

\* the loop over Direction without the test next_pos in walls
RECURSIVE ExpandFromThroughWalls(_, _, _, _, _)
ExpandFromThroughWalls(st, current_pos, goal, walls, k) ==
    IF k > Len(MoveActions) THEN st
    ELSE LET action == MoveActions[k]
             next_pos == PosAdd(current_pos, Direction(action))
             new_cost == st.cost_so_far[current_pos] + 1
         IN  IF next_pos \notin DOMAIN st.cost_so_far \/ new_cost < st.cost_so_far[next_pos]
             THEN ExpandFromThroughWalls(
                    [st EXCEPT
                        !.cost_so_far = DictSet(@, next_pos, new_cost),
                        !.tie_breaker_counter = @ + 1,
                        !.frontier = @ \cup {<<new_cost + Manhattan(next_pos, goal),
                                               st.tie_breaker_counter + 1, next_pos>>},
                        !.came_from = DictSet(@, next_pos, <<current_pos, action>>)],
                    current_pos, goal, walls, k + 1)
             ELSE ExpandFromThroughWalls(st, current_pos, goal, walls, k + 1)

\* _find_path_astar: the loop over Direction for the popped position, from the k-th
\* direction on
RECURSIVE ExpandFrom(_, _, _, _, _)
ExpandFrom(st, current_pos, goal, walls, k) ==
    IF k > Len(MoveActions) THEN st
    ELSE LET action == MoveActions[k]
             next_pos == PosAdd(current_pos, Direction(action))
             new_cost == st.cost_so_far[current_pos] + 1
         IN  IF next_pos \in walls THEN ExpandFrom(st, current_pos, goal, walls, k + 1)
             ELSE IF next_pos \notin DOMAIN st.cost_so_far \/ new_cost < st.cost_so_far[next_pos]
             THEN ExpandFrom(
                    [st EXCEPT
                        !.cost_so_far = DictSet(@, next_pos, new_cost),
                        !.tie_breaker_counter = @ + 1,
                        !.frontier = @ \cup {<<new_cost + Manhattan(next_pos, goal),
                                               st.tie_breaker_counter + 1, next_pos>>},
                        !.came_from = DictSet(@, next_pos, <<current_pos, action>>)],
                    current_pos, goal, walls, k + 1)
             ELSE ExpandFrom(st, current_pos, goal, walls, k + 1)

\* one pass of the while loop without the iteration limit
AStarStepNoLimit(st, goal, walls) ==
    IF st.done THEN st
    ELSE IF st.frontier = {} THEN [st EXCEPT !.done = TRUE]
    ELSE LET e == HeapMin(st.frontier)
             popped == [st EXCEPT !.iteration_count = @ + 1, !.frontier = @ \ {e}]
         IN  IF e[3] = goal THEN [popped EXCEPT !.done = TRUE]
             ELSE ExpandFrom(popped, e[3], goal, walls, 1)

\* _find_path_astar: one pass of the while loop.  done marks that the loop was left
\* (frontier empty, or break on the goal, or the return [] of the iteration limit,
\* which also sets aborted)
AStarStep(st, goal, walls) ==
    IF st.done THEN st
    ELSE IF st.frontier = {} THEN [st EXCEPT !.done = TRUE]
    ELSE IF st.iteration_count + 1 > IterationLimit
    THEN [st EXCEPT !.iteration_count = @ + 1, !.aborted = TRUE, !.done = TRUE]
    ELSE LET e == HeapMin(st.frontier)
             popped == [st EXCEPT !.iteration_count = @ + 1, !.frontier = @ \ {e}]
         IN  IF e[3] = goal THEN [popped EXCEPT !.done = TRUE]
             ELSE ExpandFrom(popped, e[3], goal, walls, 1)

\* n passes of the while loop (split in halves to keep the evaluation shallow)
RECURSIVE AStarLoop(_, _, _, _)
AStarLoop(st, goal, walls, n) ==
    IF n = 0 \/ st.done THEN st
    ELSE IF n = 1 THEN AStarStep(st, goal, walls)
    ELSE LET half == AStarLoop(st, goal, walls, n \div 2)
         IN  AStarLoop(half, goal, walls, n - (n \div 2))

\* _find_path_astar: the state the search ends in; the loop is left at the latest in
\* its pass number IterationLimit + 1
AStarSearch(start, goal, walls) ==
    AStarLoop([frontier |-> {<<0, 0, start>>},
               came_from |-> (start :> <<>>),
               cost_so_far |-> (start :> 0),
               tie_breaker_counter |-> 0,
               iteration_count |-> 0,
               aborted |-> FALSE,
               done |-> FALSE], goal, walls, IterationLimit + 1)

\* _find_path_astar: the actions from start to temp along the predecessor links
RECURSIVE PathTo(_, _, _)
PathTo(came_from, start, temp) ==
    IF temp = start THEN <<>>
    ELSE Append(PathTo(came_from, start, came_from[temp][1]), came_from[temp][2])

\* GoalBasedAgent._find_path_astar
find_path_astar(start, goal, walls) ==
    LET st == AStarSearch(start, goal, walls) IN
    IF st.aborted THEN <<>>
    ELSE IF goal \notin DOMAIN st.came_from THEN <<>>
    ELSE PathTo(st.came_from, start, goal)

\* _create_new_plan: the plan built for one best goal
PlanFor(my_pos, best_pos, final_action, walls) ==
    LET path_actions == find_path_astar(my_pos, best_pos, walls) IN
    IF path_actions # <<>> THEN Append(path_actions, final_action) ELSE <<>>

\* a _create_new_plan that goes on to the other candidates when the planner returns
\* nothing for the best one
create_plan_any_candidate(mem, perception) ==
    LET my_pos == perception.position
        final_action == IF perception.has_resource THEN "DROP" ELSE "PICKUP"
        candidates == IF perception.has_resource THEN mem.known_goals ELSE mem.known_resources
        plans == {PlanFor(my_pos, t, final_action, mem.known_walls) : t \in candidates} \ {<<>>}
    IN  IF plans # {} THEN plans ELSE {<<>>}

\* GoalBasedAgent._create_new_plan: the plans it may leave in current_plan (the empty
\* one when it builds none); max(goals, key=utility) is a candidate at least distance,
\* the first of them in the set's iteration order, which the model leaves open
create_new_plan(mem, perception) ==
    LET my_pos == perception.position IN
    IF perception.has_resource /\ mem.known_goals # {}
    THEN {PlanFor(my_pos, best, "DROP", mem.known_walls) :
            best \in find_closest_target(my_pos, mem.known_goals)}
    ELSE IF ~perception.has_resource /\ mem.known_resources # {}
    THEN {PlanFor(my_pos, best, "PICKUP", mem.known_walls) :
            best \in find_closest_target(my_pos, mem.known_resources)}
    ELSE {<<>>}

\* a decide_action that builds a plan on every call, queued plan or not
PlansAlwaysFresh(mem, perception) == create_new_plan(mem, perception)

\* GoalBasedAgent.decide_action: if not self.current_plan: self._create_new_plan(...)
PlansAtDecision(mem, perception) ==
    IF mem.current_plan = <<>> THEN create_new_plan(mem, perception) ELSE {mem.current_plan}

\* GoalBasedAgent.decide_action after the model update: the (action, plan left) pairs
GoalDecide(mem, perception) ==
    UNION {IF plan # <<>>
           THEN {[action |-> Head(plan), current_plan |-> Tail(plan)]}
           ELSE {[action |-> a, current_plan |-> <<>>] :
                    a \in random_valid_move(perception.visible_cells, perception.position)}
           : plan \in PlansAtDecision(mem, perception)}

\* decide_action of the class the agent was registered with: the (action, memory)
\* pairs the call may end in
decide_action(agent_id, perception) ==
    LET mem == Memory(agent_id)
        history == action_history[agent_id]
    IN  CASE agents[agent_id] = "SimpleReflexAgent" ->
                {[action |-> a, mem |-> mem] : a \in SimpleDecide(perception)}
          [] agents[agent_id] = "ModelBasedReflexAgent" ->
                {[action |-> a, mem |-> ModelUpdate(mem, perception, history)] :
                    a \in ModelDecide(ModelUpdate(mem, perception, history), perception)}
          [] agents[agent_id] = "GoalBasedAgent" ->
                {[action |-> d.action,
                  mem |-> [GoalUpdate(mem, perception, history) EXCEPT !.current_plan = d.current_plan]] :
                    d \in GoalDecide(GoalUpdate(mem, perception, history), perception)}

AgentClasses == {"SimpleReflexAgent", "ModelBasedReflexAgent", "GoalBasedAgent"}

\* bounds of the runs with the three policies
MaxPolicyTick == 7
MaxPolicyEnergy == 7

PolicyStartEnergies == {1, 2 * MaxPolicyEnergy}

\* the harness registers an agent of one of the three classes, before the first step
AddPolicyAgent ==
    /\ cursor = 0
    /\ time_step = 0
    /\ \E k \in AgentClasses, position \in AgentPositions, e \in PolicyStartEnergies :
          add_agent(k, position, e)

\* step() of a run of at most MaxPolicyTick ticks
PolicyStepBegin ==
    /\ cursor = 0
    /\ time_step < MaxPolicyTick
    /\ time_step' = time_step + 1
    /\ cursor' = IF agents = <<>> THEN 0 ELSE 1
    /\ tick_start' = agent_positions
    /\ last' = NoCall("step")
    /\ UNCHANGED <<grid, agents, agent_positions, total_rewards, action_history,
                   initial_resource_count, tasks_completed, task_completion_times, memVars,
                   dimVars>>

\* step(): one agent perceives, its decide_action runs and the action is executed
StepPolicy ==
    /\ cursor # 0
    /\ ~IsFrozen(total_rewards[cursor])
    /\ agents[cursor] \in AgentClasses
    /\ \E d \in decide_action(cursor, get_perception(cursor)) :
          /\ execute_action(cursor, d.action)
          /\ last' = Executed("step_agent", cursor, d.action)
          /\ known_walls' = [known_walls EXCEPT ![cursor] = d.mem.known_walls]
          /\ known_resources' = [known_resources EXCEPT ![cursor] = d.mem.known_resources]
          /\ known_goals' = [known_goals EXCEPT ![cursor] = d.mem.known_goals]
          /\ known_hazards' = [known_hazards EXCEPT ![cursor] = d.mem.known_hazards]
          /\ visited_positions' = [visited_positions EXCEPT ![cursor] = d.mem.visited_positions]
          /\ current_plan' = [current_plan EXCEPT ![cursor] = d.mem.current_plan]
    /\ cursor' = NextCursor
    /\ UNCHANGED <<tick_start, dimVars>>

NextPolicy ==
    \/ AddPolicyAgent
    \/ PolicyStepBegin
    \/ StepSkip
    \/ StepPolicy

SpecPolicy == Init /\ [][NextPolicy]_vars

\* the two reflex classes
ReflexClasses == {"SimpleReflexAgent", "ModelBasedReflexAgent"}

\* the harness registers a reflex agent, before the first step
AddReflexAgent ==
    /\ cursor = 0
    /\ time_step = 0
    /\ \E k \in ReflexClasses, position \in AgentPositions, e \in PolicyStartEnergies :
          add_agent(k, position, e)

NextReflex ==
    \/ AddReflexAgent
    \/ PolicyStepBegin
    \/ StepSkip
    \/ StepPolicy

\* runs of reflex agents in which the harness keeps calling step() until its step
\* budget is used up, and every step() that began visits every registered agent
SpecReflexFair ==
    /\ Init
    /\ [][NextReflex]_vars
    /\ WF_vars(PolicyStepBegin)
    /\ WF_vars(StepSkip)
    /\ WF_vars(StepPolicy)


\* ------------------------------------------------------------------ setup
\* bounds of the terrain setup: the largest width and height constructed, and the
\* longest position list handed to a mutator
MaxSetupDim == 2
MaxListLen == 2

\* the widths handed to GridWorld(width, height): two that are not positive, the
\* least and the largest; and the heights: the positions used lie in rows 0 and -1
SetupWidths == {0 - 1, 0, 1, MaxSetupDim}

SetupHeights == {0, 1}

\* the positions handed to the mutators: two cells of the largest grid and a
\* position outside every grid
SetupPositions == {<<0, 0>>, <<1, 0>>, <<0, -1>>}

\* the position lists handed to the mutators, repetitions included
SetupLists == UNION {[1..n -> SetupPositions] : n \in 0..MaxListLen}

\* what `last` records of a mutator call: its list, and the stored type of the first
\* position of the list before the call
MutatorCall(op, positions) ==
    [NoCall(op) EXCEPT !.pos = positions,
                       !.cell = IF positions = <<>> THEN "EMPTY"
                                ELSE GridGetOrEmpty(grid, positions[1])]

\* GridWorld.__init__(width, height): the fields of the new environment
Constructed(w, h) ==
    /\ width = w
    /\ height = h
    /\ grid = <<>>
    /\ time_step = 0
    /\ agents = <<>>
    /\ agent_positions = <<>>
    /\ initial_resource_count = 0
    /\ tasks_completed = 0
    /\ task_completion_times = <<>>
    /\ total_rewards = <<>>
    /\ action_history = <<>>
    /\ known_walls = <<>>
    /\ known_resources = <<>>
    /\ known_goals = <<>>
    /\ known_hazards = <<>>
    /\ visited_positions = <<>>
    /\ current_plan = <<>>
    /\ cursor = 0
    /\ tick_start = <<>>
    /\ last = NoCall("init")
    /\ planner = NoSearch

SetupInit == \E w \in SetupWidths, h \in SetupHeights : Constructed(w, h)

\* what a mutator call leaves alone, the grid and the resource count apart
setupFrame == <<time_step, agents, agent_positions, total_rewards, action_history,
                tasks_completed, task_completion_times, memVars, cursor, tick_start,
                dimVars>>

\* GridWorld.add_walls
AddWalls ==
    \E positions \in SetupLists :
        /\ grid' = add_walls(grid, positions)
        /\ last' = MutatorCall("add_walls", positions)
        /\ UNCHANGED <<initial_resource_count, setupFrame>>

\* GridWorld.add_goals
AddGoals ==
    \E positions \in SetupLists :
        /\ grid' = add_goals(grid, positions)
        /\ last' = MutatorCall("add_goals", positions)
        /\ UNCHANGED <<initial_resource_count, setupFrame>>

\* GridWorld.add_resources: the cells, then initial_resource_count = len(resource_positions)
AddResources ==
    \E positions \in SetupLists :
        /\ grid' = add_resources(grid, positions)
        /\ initial_resource_count' = Len(positions)
        /\ last' = MutatorCall("add_resources", positions)
        /\ UNCHANGED setupFrame

\* GridWorld.add_hazards
AddHazards ==
    \E positions \in SetupLists :
        /\ grid' = add_hazards(grid, positions)
        /\ last' = MutatorCall("add_hazards", positions)
        /\ UNCHANGED <<initial_resource_count, setupFrame>>

NextSetup ==
    \/ AddWalls
    \/ AddGoals
    \/ AddResources
    \/ AddHazards

SpecSetup == SetupInit /\ [][NextSetup]_vars

\* ----------------------------------------------------------------- energy
\* Agent.__init__: self.total_rewards = 100.0
InitialEnergy == 100

\* the number of step() calls of a run from full energy
MaxEnergyTick == 201

\* the environment whose cell (1,1) is walled in: the agent registered there stays
\* where it is, and a run differs from another by the energy alone
EnergyInit ==
    /\ Init
    /\ GridGet(grid, <<1, 0>>) = "WALL"
    /\ GridGet(grid, <<0, 1>>) = "WALL"

\* the harness registers one new agent (energy 100.0) at Position(1, 1)
AddEnergyAgent ==
    /\ cursor = 0
    /\ time_step = 0
    /\ agents = <<>>
    /\ add_agent("Agent", <<1, 1>>, 2 * InitialEnergy)

\* step() of a run of at most MaxEnergyTick ticks
EnergyStepBegin ==
    /\ cursor = 0
    /\ time_step < MaxEnergyTick
    /\ time_step' = time_step + 1
    /\ cursor' = IF agents = <<>> THEN 0 ELSE 1
    /\ tick_start' = agent_positions
    /\ last' = NoCall("step")
    /\ UNCHANGED <<grid, agents, agent_positions, total_rewards, action_history,
                   initial_resource_count, tasks_completed, task_completion_times, memVars,
                   dimVars>>

NextEnergy ==
    \/ AddEnergyAgent
    \/ EnergyStepBegin
    \/ StepSkip
    \/ StepAgent

\* the harness calls step() again and again, and a step() that began visits every
\* registered agent
SpecEnergy ==
    /\ EnergyInit
    /\ [][NextEnergy]_vars
    /\ WF_vars(EnergyStepBegin)
    /\ WF_vars(StepSkip)
    /\ WF_vars(StepAgent)

\* ---------------------------------------------------------------- planner
\* bounds of the planner calls: the goal column, and the half height of a straight
\* barrier between start and goal
PlanSpan == 2
BarrierHalf == 12

\* cells that may be known walls, around the line from (0,0) to (PlanSpan,0)
WallCandidates ==
    {<<1, 0>>, <<1, 1>>, <<1, -1>>, <<PlanSpan, 1>>, <<PlanSpan, -1>>, <<PlanSpan + 1, 0>>}

\* the column x = 1 walled from -half to half
Barrier(half) == {<<1, y>> : y \in (0 - half)..half}

\* the arguments of the planner calls: every wall set over the candidates for three
\* goals (the start itself among them), a start walled in on all four sides, and the
\* barrier in two heights
PlannerInputs ==
    {[start |-> <<0, 0>>, goal |-> g, walls |-> w] :
        g \in {<<0, 0>>, <<PlanSpan, 0>>, <<1, 1>>}, w \in SUBSET WallCandidates}
    \cup {[start |-> <<0, 0>>, goal |-> <<PlanSpan, 0>>,
           walls |-> {<<1, 0>>, <<-1, 0>>, <<0, 1>>, <<0, -1>>}]}
    \cup {[start |-> <<0, 0>>, goal |-> <<PlanSpan, 0>>, walls |-> Barrier(half)] :
            half \in {BarrierHalf - 1, BarrierHalf}}

\* what a call of _find_path_astar leaves: its arguments, the actions it returns, the
\* passes of its while loop, whether the loop was left, whether it was left by the
\* return [] of the iteration limit, and whether the goal got a predecessor entry
PlannerOutcome(start, goal, walls) ==
    LET st == AStarSearch(start, goal, walls) IN
    [called |-> TRUE, start |-> start, goal |-> goal, walls |-> walls,
     path |-> find_path_astar(start, goal, walls),
     iteration_count |-> st.iteration_count,
     done |-> st.done,
     aborted |-> st.aborted,
     goal_found |-> goal \in DOMAIN st.came_from]

\* a GoalBasedAgent calls self._find_path_astar(start, goal, walls)
PlannerCall ==
    /\ ~planner.called
    /\ \E inp \in PlannerInputs : planner' = PlannerOutcome(inp.start, inp.goal, inp.walls)
    /\ UNCHANGED <<envVars, memVars, cursor, tick_start, last, width, height>>

NextPlanner == PlannerCall

SpecPlanner == Init /\ [][NextPlanner]_vars

\* the rectangle around start, goal and walls with a free margin of one cell: two
\* cells of it are connected in the plane iff they are connected inside it, by a path
\* of the same least length
Box(start, goal, walls) ==
    LET pts == walls \cup {start, goal}
        xs == {q[1] : q \in pts}
        ys == {q[2] : q \in pts}
        lo(S) == CHOOSE a \in S : \A b \in S : a <= b
        hi(S) == CHOOSE a \in S : \A b \in S : a >= b
    IN  {<<x, y>> : x \in (lo(xs) - 1)..(hi(xs) + 1), y \in (lo(ys) - 1)..(hi(ys) + 1)}

\* breadth-first levels from the start over the cells that are not walls: the number
\* of moves of a shortest path to goal, -1 when there is none
RECURSIVE Levels(_, _, _, _, _)
Levels(level, seen, d, goal, free) ==
    IF goal \in level THEN d
    ELSE IF level = {} THEN 0 - 1
    ELSE LET next == {q \in free \ seen :
                        \E c \in level, k \in DOMAIN MoveActions :
                            q = PosAdd(c, Direction(MoveActions[k]))}
         IN  Levels(next, seen \cup next, d + 1, goal, free)

ShortestLen(start, goal, walls) ==
    Levels({start}, {start}, 0, goal, Box(start, goal, walls) \ walls)

\* the positions entered when the moves of path are applied in order from pos
RECURSIVE Entered(_, _)
Entered(pos, path) ==
    IF path = <<>> THEN <<>>
    ELSE <<PosAdd(pos, Direction(Head(path)))>>
            \o Entered(PosAdd(pos, Direction(Head(path))), Tail(path))

\* ------------------------------------------------------------------ claims

\* C1: every agent's carried amount (Pickups minus Drops in its history) is 0 or 1
\* in every reachable state, whatever actions are decided.
C1_CarriedAtMostOne ==
    \A i \in DOMAIN agents : Carried(action_history[i]) \in {0, 1}

\* C2: no two registered agent ids are mapped to the same Position.
C2_PositionsDisjoint ==
    \A i, j \in DOMAIN agent_positions : i # j => agent_positions[i] # agent_positions[j]

\* C2 witness: with two agents registered, a move into the cell of the other agent
\* was just executed (and rejected).
C2_Witness ==
    /\ Len(agents) = 2
    /\ last.op = "step_agent"
    /\ IsMove(last.action)
    /\ ~last.applied
    /\ \E j \in DOMAIN agents :
          j # last.id /\ agent_positions[j] = PosAdd(last.pos, Direction(last.action))

\* C3: within one step() the agents are visited one at a time in ascending id order
\* and each acts on the world as the lower ids of the same tick left it: an agent not
\* yet visited still stands where the tick began; a move into a cell a lower id
\* entered in this tick is a no-op; a move into a free cell succeeds, also when a
\* lower id stood there when the tick began and has left; a move into the cell of a
\* higher id is a no-op, since that agent leaves, if at all, later in the tick.
C3_SameTickOrder ==
    [][(cursor # 0) =>
        LET i == cursor
            a == last'.action
            from == agent_positions[i]
            target == PosAdd(from, Direction(a))
            open == IsValidPosition(target) /\ GridGetOrEmpty(grid, target) # "WALL"
        IN  /\ cursor' = (IF i = Len(agents) THEN 0 ELSE i + 1)
            /\ last'.id = i
            /\ \A j \in DOMAIN agents : j >= i => agent_positions[j] = tick_start[j]
            /\ \A j \in DOMAIN agents : j # i =>
                  /\ agent_positions'[j] = agent_positions[j]
                  /\ total_rewards'[j] = total_rewards[j]
                  /\ action_history'[j] = action_history[j]
            /\ (last'.op = "step_agent" /\ IsMove(a) /\ open) =>
                  /\ (\E j \in 1..(i - 1) : agent_positions[j] = target /\ tick_start[j] # target)
                        => agent_positions'[i] = from
                  /\ (\A j \in DOMAIN agents : agent_positions[j] # target)
                        => agent_positions'[i] = target
                  /\ (\E j \in (i + 1)..Len(agents) : tick_start[j] = target)
                        => agent_positions'[i] = from
    ]_vars

\* C3 witness: the second agent has just moved into the cell the first agent stood on
\* when the tick began and left earlier in the same tick.
C3_Witness ==
    /\ last.op = "step_agent"
    /\ last.id = 2
    /\ IsMove(last.action)
    /\ last.applied
    /\ agent_positions[2] = tick_start[1]
    /\ agent_positions[1] # tick_start[1]

\* C4: a visited agent with energy > 0 loses exactly 1 (0.5 for Wait) in its tick, an
\* agent with energy <= 0 is skipped, and no transition of the run changes the energy,
\* the history or the position of an agent whose energy is <= 0.
C4_EnergyAndFreeze ==
    [][/\ (cursor # 0 /\ total_rewards[cursor] > 0) =>
            /\ last'.op = "step_agent"
            /\ total_rewards'[cursor] =
                  total_rewards[cursor] - (IF last'.action = "WAIT" THEN 1 ELSE 2)
       /\ (cursor # 0 /\ total_rewards[cursor] <= 0) => last'.op = "skip"
       /\ \A i \in DOMAIN agents : total_rewards[i] <= 0 =>
            /\ total_rewards'[i] = total_rewards[i]
            /\ action_history'[i] = action_history[i]
            /\ agent_positions'[i] = agent_positions[i]
    ]_vars

\* C4 witness: an agent whose energy is exactly 0 was skipped in the second tick or
\* later.
C4_Witness ==
    /\ last.op = "skip"
    /\ total_rewards[last.id] = 0
    /\ time_step >= 2

\* C5: an invalid action (a move whose destination is out of bounds, a Wall or
\* occupied; a Pickup on a cell that is not Resource; a Drop by an agent that carries
\* nothing) costs the acting agent 1 energy and changes nothing else.
C5_InvalidActionFrame ==
    [][(cursor # 0 /\ last'.op = "step_agent") =>
        LET i == cursor
            a == last'.action
            from == agent_positions[i]
            target == PosAdd(from, Direction(a))
            invalid ==
                \/ /\ IsMove(a)
                   /\ \/ target[1] < 0 \/ target[1] >= Width
                      \/ target[2] < 0 \/ target[2] >= Height
                      \/ GridGetOrEmpty(grid, target) = "WALL"
                      \/ \E j \in DOMAIN agents : agent_positions[j] = target
                \/ a = "PICKUP" /\ GridGetOrEmpty(grid, from) # "RESOURCE"
                \/ a = "DROP" /\ Carried(action_history[i]) <= 0
        IN  invalid =>
              /\ total_rewards' = [total_rewards EXCEPT ![i] = @ - 2]
              /\ grid' = grid
              /\ agent_positions' = agent_positions
              /\ action_history' = action_history
              /\ tasks_completed' = tasks_completed
              /\ task_completion_times' = task_completion_times
    ]_vars

\* C5 witness: a Drop by an agent that carries nothing was just executed on a cell
\* that is not a Resource.
C5_Witness ==
    /\ last.op = "step_agent"
    /\ last.action = "DROP"
    /\ ~last.applied
    /\ Carried(action_history[last.id]) = 0
    /\ last.cell # "RESOURCE"

\* C6: add_agent succeeds iff the position is in bounds, not a Wall and not occupied;
\* on success the agent gets the next sequential id and both registries gain exactly
\* that id; on failure the registries and the grid are unchanged.
C6_AddAgent ==
    [][(last'.op = "add_agent") =>
        LET p == last'.pos
            ok == /\ 0 <= p[1] /\ p[1] < Width /\ 0 <= p[2] /\ p[2] < Height
                  /\ GridGetOrEmpty(grid, p) # "WALL"
                  /\ \A j \in DOMAIN agent_positions : agent_positions[j] # p
            n == Len(agents)
        IN  /\ last'.applied = ok
            /\ grid' = grid
            /\ ok =>
                 /\ last'.id = n + 1
                 /\ DOMAIN agents' = 1..(n + 1)
                 /\ DOMAIN agent_positions' = 1..(n + 1)
                 /\ agent_positions'[n + 1] = p
                 /\ \A j \in 1..n : agents'[j] = agents[j] /\ agent_positions'[j] = agent_positions[j]
            /\ ~ok => agents' = agents /\ agent_positions' = agent_positions
    ]_vars

\* C6 witness: a second agent was just registered and got id 2.
C6_Witness ==
    /\ last.op = "add_agent"
    /\ last.applied
    /\ last.id = 2
    /\ Len(agents) = 2

\* C7: a Drop executed by a carrying agent appends Drop to its history; on a Goal
\* cell it adds one to the delivery counter, appends the current tick to the
\* delivery-tick list and leaves the cell a Goal; on any other cell it turns the cell
\* into Resource and leaves the counter and the list unchanged.
C7_Drop ==
    [][(cursor # 0 /\ last'.op = "step_agent" /\ last'.action = "DROP"
            /\ Carried(action_history[cursor]) >= 1) =>
        LET i == cursor
            p == agent_positions[i]
        IN  /\ action_history'[i] = Append(action_history[i], "DROP")
            /\ IF GridGetOrEmpty(grid, p) = "GOAL"
               THEN /\ tasks_completed' = tasks_completed + 1
                    /\ task_completion_times' = Append(task_completion_times, time_step)
                    /\ GridGetOrEmpty(grid', p) = "GOAL"
               ELSE /\ GridGetOrEmpty(grid', p) = "RESOURCE"
                    /\ tasks_completed' = tasks_completed
                    /\ task_completion_times' = task_completion_times
    ]_vars

\* C7 witness: a carrying agent has just dropped on a Goal cell and the delivery was
\* counted.
C7_Witness ==
    /\ last.op = "step_agent"
    /\ last.action = "DROP"
    /\ last.applied
    /\ last.cell = "GOAL"
    /\ tasks_completed = 1
    /\ task_completion_times = <<time_step>>

\* C8: in a run of step() with any mix of the three policies, the has_resource flag
\* of an agent's next perception is true right after a Pickup the environment applied
\* and false right after a Drop it applied, and no history holds two Pickups without
\* a Drop between them.
C8_HasResourceFlag ==
    /\ \A i \in DOMAIN agents :
          /\ Carried(action_history[i]) \in {0, 1}
          /\ \A k \in 1..(Len(action_history[i]) - 1) :
                ~(action_history[i][k] = "PICKUP" /\ action_history[i][k + 1] = "PICKUP")
    /\ (last.op = "step_agent" /\ last.applied /\ last.action = "PICKUP")
          => get_perception(last.id).has_resource
    /\ (last.op = "step_agent" /\ last.applied /\ last.action = "DROP")
          => ~get_perception(last.id).has_resource

\* C8 witness: an agent has just picked up for the second time, after a Pickup and a
\* Drop that were both applied.
C8_Witness ==
    /\ last.op = "step_agent"
    /\ last.action = "PICKUP"
    /\ last.applied
    /\ action_history[last.id] = <<"PICKUP", "DROP", "PICKUP">>

\* C9: GoalBasedAgent.decide_action returns Drop whenever the agent carries and
\* stands on a known Goal, otherwise Pickup whenever it does not carry and stands on
\* a known Resource, with an empty or a non-empty plan, and leaves the plan as it was.
C9_ImmediateDropPickup ==
    [][(cursor # 0 /\ last'.op = "step_agent" /\ agents[cursor] = "GoalBasedAgent") =>
        LET i == cursor
            my_pos == agent_positions[i]
            carrying == get_perception(i).has_resource
        IN  /\ (carrying /\ my_pos \in known_goals'[i])
                  => (last'.action = "DROP" /\ current_plan'[i] = current_plan[i])
            /\ (~carrying /\ my_pos \in known_resources'[i])
                  => (last'.action = "PICKUP" /\ current_plan'[i] = current_plan[i])
    ]_vars

\* C10: a GoalBasedAgent whose plan is empty and whose planner finds a path to a
\* known resource (not carrying) or known goal (carrying) at least Manhattan distance
\* queues that path followed by one Pickup (Drop) and returns its first action; with
\* a non-empty plan every call returns the head of the plan and leaves its tail,
\* whatever is perceived, so the k+1 queued actions come out in order, one per call.
C10_PlanExecution ==
    [][(cursor # 0 /\ last'.op = "step_agent" /\ agents[cursor] = "GoalBasedAgent") =>
        LET i == cursor
            my_pos == agent_positions[i]
            carrying == get_perception(i).has_resource
            targets == IF carrying THEN known_goals'[i] ELSE known_resources'[i]
            closest == {t \in targets :
                          \A u \in targets : Manhattan(t, my_pos) <= Manhattan(u, my_pos)}
            reachable == {t \in closest : find_path_astar(my_pos, t, known_walls'[i]) # <<>>}
            plans == {Append(find_path_astar(my_pos, t, known_walls'[i]),
                             IF carrying THEN "DROP" ELSE "PICKUP") : t \in reachable}
        IN  /\ current_plan[i] # <<>> =>
                  /\ last'.action = Head(current_plan[i])
                  /\ current_plan'[i] = Tail(current_plan[i])
            /\ (current_plan[i] = <<>> /\ closest # {} /\ reachable = closest) =>
                  \E pl \in plans : last'.action = pl[1] /\ current_plan'[i] = Tail(pl)
            /\ (current_plan[i] = <<>> /\ current_plan'[i] # <<>>) =>
                  \E pl \in plans : last'.action = pl[1] /\ current_plan'[i] = Tail(pl)
    ]_vars

\* C10 witness: a single GoalBasedAgent, in its third tick, has visited three
\* positions and has just returned (and had applied) the Pickup that ends its plan of
\* two moves and a Pickup.
C10_Witness ==
    /\ Len(agents) = 1
    /\ agents[1] = "GoalBasedAgent"
    /\ time_step = 3
    /\ last.op = "step_agent"
    /\ last.action = "PICKUP"
    /\ last.applied
    /\ Cardinality(visited_positions[1]) = 3
    /\ current_plan[1] = <<>>

\* C11: when the call before this one of a ModelBasedReflexAgent or GoalBasedAgent was
\* a Pickup the environment applied at P, the world-model update of this call removes P
\* from the agent's known resources.  The instances taken are those in which every
\* earlier tick of the agent was an applied Pickup or Drop (one history entry per
\* elapsed tick, the last of them Pickup), so that the agent still stands on P.
C11_PickupReconciled ==
    [][(/\ cursor # 0
        /\ last'.op = "step_agent"
        /\ agents[cursor] \in {"ModelBasedReflexAgent", "GoalBasedAgent"}
        /\ action_history[cursor] # <<>>
        /\ Len(action_history[cursor]) = time_step - 1
        /\ action_history[cursor][Len(action_history[cursor])] = "PICKUP")
       => agent_positions[cursor] \notin known_resources'[cursor]
    ]_vars

\* C12: every planner call leaves its loop within IterationLimit pops, and returns the
\* empty sequence when the goal is the start, when no path avoiding the known walls
\* leads to the goal, and whenever the goal was not popped within the first
\* IterationLimit pops, a reachable goal included.
C12_PlannerTerminates ==
    planner.called =>
        LET pops == IF planner.aborted THEN planner.iteration_count - 1
                    ELSE planner.iteration_count
            goal_popped == planner.done /\ ~planner.aborted /\ planner.goal_found
        IN  /\ planner.done
            /\ pops <= IterationLimit
            /\ planner.start = planner.goal => planner.path = <<>>
            /\ ShortestLen(planner.start, planner.goal, planner.walls) < 0 => planner.path = <<>>
            /\ ~goal_popped => planner.path = <<>>

\* C12 witness: a call whose goal is reachable but was not popped within the first
\* IterationLimit pops, and which returned the empty sequence.
C12_Witness ==
    /\ planner.called
    /\ planner.aborted
    /\ planner.path = <<>>
    /\ ShortestLen(planner.start, planner.goal, planner.walls) > 0

\* C13: a non-empty sequence returned by the planner enters no known wall, ends on the
\* goal and is as long as a shortest 4-directional path avoiding the known walls; from
\* (0,0) to (2,0) without walls it is exactly [MoveEast, MoveEast].
C13_PathShortest ==
    (planner.called /\ planner.path # <<>>) =>
        LET entered == Entered(planner.start, planner.path) IN
        /\ \A k \in DOMAIN entered : entered[k] \notin planner.walls
        /\ entered[Len(entered)] = planner.goal
        /\ Len(planner.path) = ShortestLen(planner.start, planner.goal, planner.walls)
        /\ (planner.start = <<0, 0>> /\ planner.goal = <<2, 0>> /\ planner.walls = {})
              => planner.path = <<"MOVE_EAST", "MOVE_EAST">>

\* C13 witness: a path returned around known walls, longer than the Manhattan distance.
C13_Witness ==
    /\ planner.called
    /\ planner.path # <<>>
    /\ planner.walls # {}
    /\ Len(planner.path) > Manhattan(planner.start, planner.goal)

\* the window claimed for agent i: all positions within PerceptionRange of its
\* position in both coordinates, Wall outside the grid, the stored type (Empty when
\* the cell was never written) inside
WindowAsClaimed(i) ==
    LET c == agent_positions[i]
        window == {<<c[1] + dx, c[2] + dy>> :
                     dx \in (0 - PerceptionRange)..PerceptionRange,
                     dy \in (0 - PerceptionRange)..PerceptionRange}
        inside(q) == 0 <= q[1] /\ q[1] < width /\ 0 <= q[2] /\ q[2] < height
    IN  \A perception \in {get_perception(i)} :
        /\ perception.position = c
        /\ DOMAIN perception.visible_cells = window
        /\ Cardinality(DOMAIN perception.visible_cells)
              = (2 * PerceptionRange + 1) * (2 * PerceptionRange + 1)
        /\ \A q \in window :
              /\ ~inside(q) => perception.visible_cells[q] = "WALL"
              /\ (inside(q) /\ q \in DOMAIN grid) => perception.visible_cells[q] = grid[q]
              /\ (inside(q) /\ q \notin DOMAIN grid) => perception.visible_cells[q] = "EMPTY"

\* C14: in every state reached, the perception of every registered agent is the
\* window of (2R+1)^2 entries centred on it, Wall outside the grid and the stored type
\* (Empty if never set) inside; and a step() call of an agent, which builds the
\* perception, adds no grid key except the acting agent's own cell (written by an
\* applied Pickup or Drop), so the read inserts nothing.
C14_PerceptionWindow ==
    [][/\ \A i \in DOMAIN agents' : WindowAsClaimed(i)'
       /\ last'.op = "step_agent" =>
             /\ DOMAIN grid' \subseteq DOMAIN grid \cup {last'.pos}
             /\ ~last'.applied => grid' = grid
       /\ last'.op # "step_agent" => grid' = grid
       /\ \A q \in DOMAIN grid' : 0 <= q[1] /\ q[1] < width /\ 0 <= q[2] /\ q[2] < height
    ]_vars

\* C14 witness: an agent was perceived and stepped at (1,1), its action changed
\* nothing but energy, and its window there holds a position outside the grid
\* (reported Wall), a cell never written (reported Empty) and a written cell.
C14_Witness ==
    /\ last.op = "step_agent"
    /\ ~last.applied
    /\ last.pos = <<1, 1>>
    /\ agent_positions[last.id] = <<1, 1>>
    /\ LET visible_cells == get_perception(last.id).visible_cells IN
          /\ visible_cells[<<1, Height>>] = "WALL"
          /\ <<1, 1>> \notin DOMAIN grid
          /\ visible_cells[<<1, 1>>] = "EMPTY"
          /\ visible_cells[<<0, 0>>] = "RESOURCE"

\* the cell type a mutator writes
TypeWritten(op) ==
    CASE op = "add_walls" -> "WALL"
      [] op = "add_goals" -> "GOAL"
      [] op = "add_resources" -> "RESOURCE"
      [] op = "add_hazards" -> "HAZARD"

InsideGrid(q) == 0 <= q[1] /\ q[1] < width /\ 0 <= q[2] /\ q[2] < height

C16_ResourceCount ==
    [][(/\ last'.op = "add_resources"
        /\ width > 0
        /\ height > 0
        /\ \A q \in DOMAIN grid : grid[q] = "RESOURCE")
        => initial_resource_count' = Cardinality({q \in DOMAIN grid' : grid'[q] = "RESOURCE"})
    ]_vars

\* C20: every environment that was constructed has a positive width and a positive
\* height (construction with another dimension aborts and yields no environment).
C20_PositiveDimensions == width > 0 /\ height > 0

\* C17: in every state of a run of step() calls the metrics report the delivery
\* counter, the tick and the greatest entry of the delivery-tick list (0 if empty);
\* the list has one entry per counted delivery, is non-decreasing and lies between 1
\* and the tick, so the reported completion time is the tick of the last delivery
\* and is 0 exactly when nothing was delivered.
C17_Metrics ==
    LET metrics == get_performance_metrics
        times == task_completion_times
    IN  /\ metrics.total_resources_collected = tasks_completed
        /\ metrics.time_step = time_step
        /\ \A k \in DOMAIN times : times[k] <= metrics.task_completion_time
        /\ times # <<>> => \E k \in DOMAIN times : times[k] = metrics.task_completion_time
        /\ times = <<>> => metrics.task_completion_time = 0
        /\ Len(times) = tasks_completed
        /\ \A k \in DOMAIN times : 1 <= times[k] /\ times[k] <= time_step
        /\ \A k \in 1..(Len(times) - 1) : times[k] <= times[k + 1]
        /\ times # <<>> => metrics.task_completion_time = times[Len(times)]
        /\ (metrics.task_completion_time = 0) <=> (tasks_completed = 0)

\* C17 witness: two deliveries in different ticks have been counted.
C17_Witness ==
    /\ tasks_completed = 2
    /\ Len(task_completion_times) = 2
    /\ task_completion_times[1] < task_completion_times[2]
    /\ get_performance_metrics.task_completion_time = task_completion_times[2]

\* the move from c toward another position t: the vertical difference first
MoveToward(c, t) ==
    IF c[2] > t[2] THEN "MOVE_NORTH"
    ELSE IF c[2] < t[2] THEN "MOVE_SOUTH"
    ELSE IF c[1] < t[1] THEN "MOVE_EAST"
    ELSE "MOVE_WEST"

\* the position met first when the window is scanned row by row (y ascending) and
\* within a row by x ascending
FirstScanned(T) ==
    CHOOSE t \in T : \A u \in T : t[2] < u[2] \/ (t[2] = u[2] /\ t[1] <= u[1])

\* random valid exploration: a move whose destination is not seen as Wall or Hazard,
\* Wait only when there is no such move
IsExploration(a, c, visible_cells) ==
    LET ok(m) == LET d == PosAdd(c, Direction(m)) IN
                 ~(d \in DOMAIN visible_cells /\ visible_cells[d] \in {"WALL", "HAZARD"})
    IN  \/ IsMove(a) /\ ok(a)
        \/ a = "WAIT" /\ \A k \in DOMAIN MoveActions : ~ok(MoveActions[k])

\* C18: SimpleReflexAgent.decide_action returns the action of the first rule that
\* matches: Drop if carrying on a Goal; Pickup if not carrying on a Resource; if
\* carrying with a Goal visible, the move toward the Goal scanned first; if not
\* carrying with a Resource visible, the move toward the Resource scanned first;
\* otherwise a random valid exploration; a move toward a target is North or South
\* unless the rows are equal.
C18_SimpleRules ==
    [][(cursor # 0 /\ last'.op = "step_agent" /\ agents[cursor] = "SimpleReflexAgent") =>
        LET perception == get_perception(cursor)
            c == perception.position
            visible_cells == perception.visible_cells
            carrying == perception.has_resource
            goals == {q \in DOMAIN visible_cells : visible_cells[q] = "GOAL"}
            resources == {q \in DOMAIN visible_cells : visible_cells[q] = "RESOURCE"}
            a == last'.action
        IN  IF carrying /\ visible_cells[c] = "GOAL" THEN a = "DROP"
            ELSE IF ~carrying /\ visible_cells[c] = "RESOURCE" THEN a = "PICKUP"
            ELSE IF carrying /\ goals # {} THEN a = MoveToward(c, FirstScanned(goals))
            ELSE IF ~carrying /\ resources # {} THEN a = MoveToward(c, FirstScanned(resources))
            ELSE IsExploration(a, c, visible_cells)
    ]_vars

\* C18 witness: a SimpleReflexAgent that carries nothing stood on (1,1) with the
\* Resource (0,0), which lies in another row and another column, as the only one in
\* sight, and moved North.
C18_Witness ==
    /\ last.op = "step_agent"
    /\ agents[last.id] = "SimpleReflexAgent"
    /\ last.pos = <<1, 1>>
    /\ last.action = "MOVE_NORTH"
    /\ last.applied
    /\ action_history[last.id] = <<>>
    /\ grid[<<0, 0>>] = "RESOURCE"
    /\ <<1, 0>> \notin DOMAIN grid

\* C19: ModelBasedReflexAgent.decide_action merges the Goal and Resource cells of its
\* window into its model and then returns the action of the first rule that matches:
\* Drop if carrying on a known Goal; Pickup if not carrying on a known Resource; if
\* carrying and a goal is known, a move toward a known goal at least Manhattan
\* distance; if not carrying and a resource is known, a move toward a known resource
\* at least Manhattan distance; otherwise a random valid exploration.
C19_ModelRules ==
    [][(cursor # 0 /\ last'.op = "step_agent" /\ agents[cursor] = "ModelBasedReflexAgent") =>
        LET perception == get_perception(cursor)
            c == perception.position
            visible_cells == perception.visible_cells
            carrying == perception.has_resource
            goals == known_goals'[cursor]
            resources == known_resources'[cursor]
            nearest(T) == {t \in T : \A u \in T : Manhattan(t, c) <= Manhattan(u, c)}
            a == last'.action
        IN  /\ {q \in DOMAIN visible_cells : visible_cells[q] = "GOAL"} \subseteq goals
            /\ {q \in DOMAIN visible_cells : visible_cells[q] = "RESOURCE"} \subseteq resources
            /\ known_goals[cursor] \subseteq goals
            /\ IF carrying /\ c \in goals THEN a = "DROP"
               ELSE IF ~carrying /\ c \in resources THEN a = "PICKUP"
               ELSE IF carrying /\ goals # {}
               THEN \E t \in nearest(goals) : a = MoveToward(c, t)
               ELSE IF ~carrying /\ resources # {}
               THEN \E t \in nearest(resources) : a = MoveToward(c, t)
               ELSE IsExploration(a, c, visible_cells)
    ]_vars

\* C19 witness: a ModelBasedReflexAgent that carries stood on (1,0), knew the goal
\* (2,0) at distance 1 and the goal (0,1) at distance 2, which ask for different
\* moves, and moved East.
C19_Witness ==
    /\ last.op = "step_agent"
    /\ agents[last.id] = "ModelBasedReflexAgent"
    /\ last.pos = <<1, 0>>
    /\ last.action = "MOVE_EAST"
    /\ HasResource(action_history[last.id])
    /\ known_goals[last.id] = {<<2, 0>>, <<0, 1>>}

\* the moves whose destination the perception of agent i reports as neither Wall
\* nor Hazard
OpenMoves(i) ==
    LET perception == get_perception(i)
        c == perception.position
    IN  {m \in Action :
            /\ IsMove(m)
            /\ PosAdd(c, Direction(m)) \in DOMAIN perception.visible_cells
            /\ perception.visible_cells[PosAdd(c, Direction(m))] \notin {"WALL", "HAZARD"}}

\* whether the decision agent i takes in this step ends in the exploration fallback:
\* no rule of a reflex agent matches, or a GoalBasedAgent has no plan before and after
Explores(i) ==
    LET perception == get_perception(i)
        c == perception.position
        visible_cells == perception.visible_cells
        carrying == perception.has_resource
        seen(t) == {q \in DOMAIN visible_cells : visible_cells[q] = t}
    IN  CASE agents[i] = "SimpleReflexAgent" ->
                IF carrying THEN seen("GOAL") = {} ELSE seen("RESOURCE") = {}
          [] agents[i] = "ModelBasedReflexAgent" ->
                IF carrying THEN known_goals'[i] = {} ELSE known_resources'[i] = {}
          [] agents[i] = "GoalBasedAgent" ->
                current_plan[i] = <<>> /\ current_plan'[i] = <<>>

\* C21: for every registered agent, random valid exploration on its perception can
\* return exactly the moves whose destination the window reports as neither Wall nor
\* Hazard, and Wait exactly when there is no such move; and a move returned by the
\* exploration fallback of a decision targets a cell inside the grid that is neither
\* a Wall nor a Hazard (the perception radius is at least 1).
C21_Exploration ==
    [][/\ \A i \in DOMAIN agents :
             LET returned == random_valid_move(get_perception(i).visible_cells, agent_positions[i])
             IN  /\ returned \cap {"MOVE_NORTH", "MOVE_SOUTH", "MOVE_EAST", "MOVE_WEST"} = OpenMoves(i)
                 /\ ("WAIT" \in returned) <=> (OpenMoves(i) = {})
                 /\ returned \subseteq {"MOVE_NORTH", "MOVE_SOUTH", "MOVE_EAST", "MOVE_WEST", "WAIT"}
       /\ (cursor # 0 /\ last'.op = "step_agent" /\ agents[cursor] \in AgentClasses
              /\ Explores(cursor)) =>
             LET a == last'.action
                 target == PosAdd(agent_positions[cursor], Direction(a))
             IN  /\ a \in OpenMoves(cursor) \cup {"WAIT"}
                 /\ (a = "WAIT") <=> (OpenMoves(cursor) = {})
                 /\ IsMove(a) =>
                       /\ 0 <= target[1] /\ target[1] < width
                       /\ 0 <= target[2] /\ target[2] < height
                       /\ GridGetOrEmpty(grid, target) \notin {"WALL", "HAZARD"}
    ]_vars

\* C21 witness: a carrying agent stood on (0,0) with the grid border north and west
\* and Hazards south and east, had no goal to go for, and waited.
C21_Witness ==
    /\ last.op = "step_agent"
    /\ last.action = "WAIT"
    /\ last.pos = <<0, 0>>
    /\ HasResource(action_history[last.id])
    /\ GridGetOrEmpty(grid, <<0, 1>>) = "HAZARD"
    /\ GridGetOrEmpty(grid, <<1, 0>>) = "HAZARD"
    /\ OpenMoves(last.id) = {}

\* C22: a GoalBasedAgent with an empty plan that has no candidate for its carrying
\* state, or whose planner returns the empty sequence for every candidate at least
\* Manhattan distance (the one it chooses), completes its decision with a random valid
\* exploration and an empty plan, also when another known candidate has a path; and
\* its decide_action has an outcome in every state in which it is called.
C22_PlanFailureFallback ==
    [][(cursor # 0 /\ ~IsFrozen(total_rewards[cursor]) /\ agents[cursor] = "GoalBasedAgent") =>
        LET i == cursor
            perception == get_perception(i)
            c == perception.position
            candidates == IF perception.has_resource THEN known_goals'[i] ELSE known_resources'[i]
            chosen == {t \in candidates :
                         \A u \in candidates : Manhattan(t, c) <= Manhattan(u, c)}
            no_plan == \A t \in chosen : find_path_astar(c, t, known_walls'[i]) = <<>>
        IN  /\ decide_action(i, perception) # {}
            /\ last'.op = "step_agent"
            /\ (current_plan[i] = <<>> /\ no_plan) =>
                  /\ IsExploration(last'.action, c, perception.visible_cells)
                  /\ current_plan'[i] = <<>>
    ]_vars

\* C22 witness: a GoalBasedAgent that carries nothing stood on the known Resource
\* (1,0), at distance 0, knew the Resource (0,0) one free move away, and explored
\* southward with its plan left empty.
C22_Witness ==
    /\ last.op = "step_agent"
    /\ agents[last.id] = "GoalBasedAgent"
    /\ last.pos = <<1, 0>>
    /\ last.cell = "RESOURCE"
    /\ last.action = "MOVE_SOUTH"
    /\ action_history[last.id] = <<>>
    /\ known_resources[last.id] = {<<0, 0>>, <<1, 0>>}
    /\ find_path_astar(<<1, 0>>, <<0, 0>>, known_walls[last.id]) = <<"MOVE_WEST">>
    /\ current_plan[last.id] = <<>>

\* the number of Resource cells of a grid
ResourceCells(g) == Cardinality({q \in DOMAIN g : g[q] = "RESOURCE"})

\* the carried amounts of all registered agents together
RECURSIVE CarriedUpTo(_)
CarriedUpTo(n) == IF n = 0 THEN 0 ELSE Carried(action_history[n]) + CarriedUpTo(n - 1)

\* Resource cells on the grid, plus what the agents carry, plus what was delivered
ResourceTotal == ResourceCells(grid) + CarriedUpTo(Len(agents)) + tasks_completed

\* C23: no step of a run (a registration, the start of a tick, a skipped or a
\* processed agent) increases the sum of the Resource cells on the grid, the carried
\* amounts and the delivery counter; and the delivery counter never exceeds the number
\* of Resource cells the grid holds at the end of setup.
C23_ResourceConservation ==
    /\ [][ResourceTotal' <= ResourceTotal]_vars
    /\ \A n \in 0..(Width * Height) : (ResourceCells(grid) = n) => [](tasks_completed <= n)

\* C23 witness: a carrying agent has just dropped on a cell that already was a
\* Resource, so that the sum fell: one Resource cell is left of at least two units,
\* nothing is carried and nothing was delivered.
C23_Witness ==
    /\ last.op = "step_agent"
    /\ last.action = "DROP"
    /\ last.applied
    /\ last.cell = "RESOURCE"
    /\ ResourceCells(grid) = 1
    /\ CarriedUpTo(Len(agents)) = 0
    /\ tasks_completed = 0

\* the cells of a grid that hold type t
CellsOf(g, t) == {q \in DOMAIN g : g[q] = t}

\* C24: in a run without terrain mutator calls after setup, no step changes the set
\* of Wall cells or the set of Goal cells, so both stay those of the end of setup; a
\* step that changes the grid is an applied Pickup or Drop and rewrites only the
\* acting agent's cell, which is neither Wall nor Goal; and every registered agent
\* stands inside the grid on a cell that is not a Wall.
C24_TerrainStable ==
    [][/\ CellsOf(grid', "WALL") = CellsOf(grid, "WALL")
       /\ CellsOf(grid', "GOAL") = CellsOf(grid, "GOAL")
       /\ grid' # grid =>
             /\ last'.op = "step_agent"
             /\ last'.action \in {"PICKUP", "DROP"}
             /\ last'.applied
             /\ GridGetOrEmpty(grid, last'.pos) \notin {"WALL", "GOAL"}
             /\ \A q \in DOMAIN grid' : q # last'.pos => (q \in DOMAIN grid /\ grid'[q] = grid[q])
       /\ \A i \in DOMAIN agents' :
             /\ 0 <= agent_positions'[i][1] /\ agent_positions'[i][1] < width'
             /\ 0 <= agent_positions'[i][2] /\ agent_positions'[i][2] < height'
             /\ GridGetOrEmpty(grid', agent_positions'[i]) # "WALL"
    ]_vars

\* C24 witness: an agent that has rewritten a cell by a Pickup stands on (1,1) and has
\* just tried to move East into the Wall (2,1); it was not moved.
C24_Witness ==
    /\ last.op = "step_agent"
    /\ last.action = "MOVE_EAST"
    /\ ~last.applied
    /\ last.pos = <<1, 1>>
    /\ agent_positions[last.id] = <<1, 1>>
    /\ GridGetOrEmpty(grid, <<2, 1>>) = "WALL"
    /\ action_history[last.id] = <<"PICKUP">>
    /\ GridGetOrEmpty(grid, <<1, 0>>) = "EMPTY"
    /\ <<1, 0>> \in DOMAIN grid

\* C26: every history holds Pickup and Drop entries only; a step of agent i appends
\* its action to its own history exactly when the action is a Pickup on a Resource
\* cell or a Drop by a carrying agent, and otherwise (moves, Wait, rejected Pickups
\* and Drops, every other transition) leaves every history as it was; in every prefix
\* of a history the Drops do not outnumber the Pickups; and an agent whose last
\* history entry is Pickup is carrying (its next perception says has_resource).
C26_HistoryLog ==
    [][/\ \A i \in DOMAIN agents' :
             LET h == action_history'[i] IN
             /\ \A k \in DOMAIN h : h[k] \in {"PICKUP", "DROP"}
             /\ \A n \in 0..Len(h) :
                   CountOf(SubSeq(h, 1, n), "DROP") <= CountOf(SubSeq(h, 1, n), "PICKUP")
             /\ (h # <<>> /\ h[Len(h)] = "PICKUP") =>
                   (/\ CountOf(h, "PICKUP") > CountOf(h, "DROP")
                    /\ get_perception(i)'.has_resource)
       /\ \A i \in DOMAIN agents :
             LET a == last'.action
                 logged == /\ cursor = i
                           /\ last'.op = "step_agent"
                           /\ \/ a = "PICKUP" /\ GridGetOrEmpty(grid, agent_positions[i]) = "RESOURCE"
                              \/ a = "DROP" /\ CountOf(action_history[i], "PICKUP")
                                                  > CountOf(action_history[i], "DROP")
             IN  action_history'[i] = IF logged THEN Append(action_history[i], a)
                                      ELSE action_history[i]
    ]_vars

\* C26 witness: an agent picked up, dropped, and then had a second Drop rejected: the
\* history holds the two applied entries only.
C26_Witness ==
    /\ last.op = "step_agent"
    /\ last.action = "DROP"
    /\ ~last.applied
    /\ action_history[last.id] = <<"PICKUP", "DROP">>
    /\ time_step = 3

\* whether every registered agent is frozen
AllFrozen == \A i \in DOMAIN agents : total_rewards[i] <= 0

\* C25: an agent registered with energy 100 keeps an energy between -0.5 and 100 (in
\* half units, so always a multiple of 0.5); every tick in which it is processed
\* lowers its energy, by 1 or by 0.5; it is processed in at most 200 ticks and is
\* frozen (energy <= 0) from then on, and under repeated step() calls it does become
\* frozen; and once all registered agents are frozen, a step() call changes nothing
\* of the environment or the agents but the tick counter.
C25_EnergyRunsOut ==
    /\ [](\A i \in DOMAIN agents :
             /\ 0 - 1 <= total_rewards[i] /\ total_rewards[i] <= 2 * InitialEnergy
             /\ (cursor = i /\ total_rewards[i] > 0) => time_step <= 2 * InitialEnergy
             /\ time_step > 2 * InitialEnergy => total_rewards[i] <= 0)
    /\ [][/\ (cursor # 0 /\ last'.op = "step_agent") =>
               /\ total_rewards'[cursor] < total_rewards[cursor]
               /\ total_rewards[cursor] - total_rewards'[cursor] \in {1, 2}
          /\ (cursor # 0 /\ last'.op # "step_agent") => total_rewards' = total_rewards
          /\ \A i \in DOMAIN agents :
                total_rewards[i] <= 0 => total_rewards'[i] = total_rewards[i]
          /\ (agents # <<>> /\ AllFrozen) =>
                UNCHANGED <<grid, agents, agent_positions, total_rewards, action_history,
                            initial_resource_count, tasks_completed, task_completion_times,
                            memVars, width, height>>
         ]_vars
    /\ [](agents # <<>> => <>AllFrozen)

\* C25 witness: an agent that waited in every one of 200 ticks has energy 0 and is
\* skipped in tick 201.
C25_Witness ==
    /\ agents # <<>>
    /\ last.op = "skip"
    /\ total_rewards[1] = 0
    /\ time_step = 2 * InitialEnergy + 1

\* the step budget of the run is used up while agent i still has energy: what the
\* agent would return next lies outside the run
RunCutShort(i) ==
    time_step = MaxPolicyTick /\ cursor = 0 /\ i \in DOMAIN agents /\ total_rewards[i] > 0

\* C27: whenever a Pickup returned by a ModelBasedReflexAgent was rejected by the
\* environment and the agent still has energy, the agent later returns an action
\* other than Pickup (or the step budget ends while it still has energy): it does not
\* return Pickup in every following tick until it is frozen.
C27_RejectedPickupAbandoned ==
    \A i \in 1..Cardinality(AgentPositions) :
        []((/\ i \in DOMAIN agents
            /\ agents[i] = "ModelBasedReflexAgent"
            /\ last.op = "step_agent"
            /\ last.id = i
            /\ last.action = "PICKUP"
            /\ ~last.applied
            /\ total_rewards[i] > 0)
           => <>(\/ last.op = "step_agent" /\ last.id = i /\ last.action # "PICKUP"
                 \/ RunCutShort(i)))

====
